---- MODULE Spec2Model ----
(***************************************************************************)
(* State-machine model of the push-notification Cloud Functions of the     *)
(* Reroute admin panel (reroute-admin/functions/src/index.ts):             *)
(*   sendCommunicationNotification   Firestore onCreate  communications    *)
(*   sendBookingStatusNotification   Firestore onUpdate  bookings          *)
(*   sendFarmhouseStatusNotification Firestore onUpdate  farmhouses        *)
(*   sendManualNotification          HTTPS callable                        *)
(* Every await of a handler is one step; a read of the document store, a   *)
(* call of the push transport and a write-back can each succeed or throw.  *)
(***************************************************************************)
EXTENDS Integers, Sequences, FiniteSets, TLC

(***************************************************************************)
(* Bounds of the model.                                                    *)
(***************************************************************************)
MaxUsers == 3
MaxDeliveries == 2

Users == 1..MaxUsers
Deliveries == 1..MaxDeliveries

\* a reference to a user: 0 is a missing id, MaxUsers + 1 an id without a record
NoId == 0
UserRefs == 0..(MaxUsers + 1)

(***************************************************************************)
(* The users collection.  A user record carries role, is_active and at     *)
(* most one fcmToken; NoToken stands for an absent (or empty) fcmToken.    *)
(***************************************************************************)
NoToken == ""
Absent == "absent"

TokenName(u) ==
  CASE u = 1 -> "tA"
    [] u = 2 -> "tB"
    [] u = 3 -> "tC"
    [] u = 4 -> "tD"
    [] OTHER -> "tE"

Archetypes ==
  << [role |-> "user",  is_active |-> TRUE,  hasToken |-> TRUE],
     [role |-> "user",  is_active |-> FALSE, hasToken |-> TRUE],
     [role |-> "user",  is_active |-> TRUE,  hasToken |-> FALSE],
     [role |-> "owner", is_active |-> TRUE,  hasToken |-> TRUE],
     [role |-> "admin", is_active |-> TRUE,  hasToken |-> TRUE],
     [role |-> "owner", is_active |-> FALSE, hasToken |-> FALSE] >>

UserRecord(u, a) ==
  [role |-> a.role, is_active |-> a.is_active,
   fcmToken |-> IF a.hasToken THEN TokenName(u) ELSE NoToken]

\* the user collections the runs start from: user u of collection k is
\* archetype k + u - 1 (cyclically)
UserDBs ==
  { [u \in Users |-> UserRecord(u, Archetypes[((k + u - 2) % Len(Archetypes)) + 1])]
      : k \in 1..Len(Archetypes) }

NoUserData == [role |-> Absent, is_active |-> FALSE, fcmToken |-> NoToken]

\* the admin panel: the handler that runs (flow), its position and what it did
IdlePanel ==
  [flow |-> "none", pc |-> "idle", approvalType |-> "none", reason |-> FALSE,
   currentUser |-> FALSE, loading |-> FALSE, wrote |-> FALSE, kyc |-> "none",
   history |-> "none", audit |-> "none", report |-> "none", dialogOpen |-> FALSE,
   refundDialogOpen |-> FALSE, paid |-> FALSE, recipientType |-> "none",
   count |-> 0, modalOpen |-> FALSE, checklist |-> {}, commission |-> 10,
   completed |-> FALSE]

VARIABLES
  users,        \* the users collection
  comm,         \* the communication document
  commInv,      \* invocations of sendCommunicationNotification
  booking,      \* the booking document
  bookingInv,   \* the invocation of sendBookingStatusNotification
  farmhouse,    \* the farmhouse document
  farmhouseInv, \* the invocation of sendFarmhouseStatusNotification
  manualInv,    \* the call of sendManualNotification
  panel,        \* the admin panel handler that is running, and its outcome
  auth,         \* the auth context and what PrivateRoute rendered from it
  pending,      \* the state of PendingCountProvider and its listeners
  batch         \* the call of batchProcess

vars == <<auth, pending, batch, users, comm, commInv, booking, bookingInv, farmhouse, farmhouseInv, manualInv,
          panel>>

\* userDoc.data(): the record of the user, undefined for a missing document
UserData(id) == IF id \in Users THEN users[id] ELSE NoUserData

\* the same without .filter(token => token)
RECURSIVE TokensFromUnfiltered(_, _)
TokensFromUnfiltered(u, S) ==
  IF u > MaxUsers THEN << >>
  ELSE (IF u \in S THEN << users[u].fcmToken >> ELSE << >>)
         \o TokensFromUnfiltered(u + 1, S)

\* .map(doc => doc.data().fcmToken).filter(token => token) over the documents
\* of S in document order
RECURSIVE TokensFrom(_, _)
TokensFrom(u, S) ==
  IF u > MaxUsers THEN << >>
  ELSE (IF u \in S /\ users[u].fcmToken # NoToken
          THEN << users[u].fcmToken >> ELSE << >>) \o TokensFrom(u + 1, S)

TokensOfUsers(S) == TokensFrom(1, S)

(***************************************************************************)
(* sendCommunicationNotification                                           *)
(***************************************************************************)
RecipientTypes ==
  {"all_users", "specific_user", "role",
   "all_owners", "farmhouse_owners", "active_users", "active_users_only"}
RecipientRoles == {Absent, "user", "owner"}

NoStatus == [success |-> -1, failure |-> -1]
NoError == ""
StoreError == "store unavailable"
TransportError == "messaging unavailable"

NoComm ==
  [exists |-> FALSE, recipientType |-> Absent, recipientId |-> NoId,
   recipientRole |-> Absent, notificationSent |-> FALSE,
   notificationError |-> NoError, deliveryStatus |-> NoStatus, writes |-> 0,
   recipientCount |-> 0, sentBy |-> "none"]

NoResponse == [successCount |-> -1, failureCount |-> -1]

IdleInv ==
  [pc |-> "none", tokens |-> << >>, calls |-> 0, sentTo |-> << >>,
   response |-> NoResponse, error |-> NoError, writes |-> 0, result |-> "none",
   resolved |-> FALSE]

\* the users the handler resolves the recipient selector of communication to
ResolvedUsers(communication) ==
  IF communication.recipientType = "all_users" THEN Users
  ELSE IF communication.recipientType = "specific_user"
          /\ communication.recipientId # NoId
    THEN {communication.recipientId} \cap Users
  ELSE IF communication.recipientType = "role"
          /\ communication.recipientRole # Absent
    THEN {u \in Users : users[u].role = communication.recipientRole}
  ELSE {}

RecipientTokens(communication) == TokensOfUsers(ResolvedUsers(communication))

\* admin.messaging().sendEachForMulticast(payload): one result per token
MulticastResponses(tokens) ==
  { [successCount |-> s, failureCount |-> Len(tokens) - s] : s \in 0..Len(tokens) }

\* addDoc(collection(db, 'communications'), {...}): a communication is created
CreateCommunication(rt, rid, rrole) ==
  /\ ~comm.exists
  /\ comm' =
       [NoComm EXCEPT !.exists = TRUE, !.recipientType = rt,
                      !.recipientId = rid, !.recipientRole = rrole]
  /\ UNCHANGED <<auth, pending, batch, users, commInv, booking, bookingInv, farmhouse, farmhouseInv, manualInv,
               panel>>

\* the trigger layer delivers the creation event (at least once)
CommTrigger(d) ==
  /\ comm.exists
  /\ commInv[d].pc = "none"
  /\ \A e \in Deliveries : e < d => commInv[e].pc # "none"
  /\ commInv' = [commInv EXCEPT ![d] = [IdleInv EXCEPT !.pc = "resolve"]]
  /\ UNCHANGED <<auth, pending, batch, users, comm, booking, bookingInv, farmhouse, farmhouseInv, manualInv,
               panel>>

\* lines 17-51: resolve the recipient tokens
CommResolve(d) ==
  /\ commInv[d].pc = "resolve"
  /\ \/ \* the read succeeds
        LET tokens == RecipientTokens(comm) IN
        commInv' = [commInv EXCEPT ![d] =
          IF Len(tokens) = 0
            THEN [@ EXCEPT !.pc = "done", !.resolved = TRUE, !.result = "null"]
            ELSE [@ EXCEPT !.pc = "send", !.resolved = TRUE, !.tokens = tokens]]
     \/ \* the read throws (only the branches that read the store)
        /\ \/ comm.recipientType = "all_users"
           \/ comm.recipientType = "specific_user" /\ comm.recipientId # NoId
           \/ comm.recipientType = "role" /\ comm.recipientRole # Absent
        /\ commInv' = [commInv EXCEPT ![d] =
             [@ EXCEPT !.pc = "catch", !.error = StoreError]]
  /\ UNCHANGED <<auth, pending, batch, users, comm, booking, bookingInv, farmhouse, farmhouseInv, manualInv,
               panel>>

\* the batched send, called a second time when the first call throws
CommSendRetry(d) ==
  /\ commInv[d].pc = "send"
  /\ \/ \E r \in MulticastResponses(commInv[d].tokens) :
          commInv' = [commInv EXCEPT ![d] =
            [@ EXCEPT !.pc = "write", !.calls = @ + 1,
                      !.sentTo = commInv[d].tokens, !.response = r]]
     \/ \E r \in MulticastResponses(commInv[d].tokens) :
          commInv' = [commInv EXCEPT ![d] =
            [@ EXCEPT !.pc = "write", !.calls = @ + 2,
                      !.sentTo = commInv[d].tokens, !.response = r]]
     \/ commInv' = [commInv EXCEPT ![d] =
          [@ EXCEPT !.pc = "catch", !.calls = @ + 2,
                    !.sentTo = commInv[d].tokens, !.error = TransportError]]
  /\ UNCHANGED <<auth, pending, batch, users, comm, booking, bookingInv, farmhouse, farmhouseInv, manualInv,
               panel>>

\* line 83: the batched send
CommSend(d) ==
  /\ commInv[d].pc = "send"
  /\ \/ \E r \in MulticastResponses(commInv[d].tokens) :
          commInv' = [commInv EXCEPT ![d] =
            [@ EXCEPT !.pc = "write", !.calls = @ + 1,
                      !.sentTo = commInv[d].tokens, !.response = r]]
     \/ commInv' = [commInv EXCEPT ![d] =
          [@ EXCEPT !.pc = "catch", !.calls = @ + 1,
                    !.sentTo = commInv[d].tokens, !.error = TransportError]]
  /\ UNCHANGED <<auth, pending, batch, users, comm, booking, bookingInv, farmhouse, farmhouseInv, manualInv,
               panel>>

\* the delivery status with the two counts exchanged
SuccessUpdateSwapped(doc, response) ==
  [doc EXCEPT !.notificationSent = TRUE,
              !.deliveryStatus = [success |-> response.failureCount,
                                  failure |-> response.successCount],
              !.writes = @ + 1]

\* lines 91-98: the delivery status written onto the communication
SuccessUpdate(doc, response) ==
  [doc EXCEPT !.notificationSent = TRUE,
              !.deliveryStatus = [success |-> response.successCount,
                                  failure |-> response.failureCount],
              !.writes = @ + 1]

\* the error status without the error message
ErrorUpdateNoMessage(doc, error) ==
  [doc EXCEPT !.notificationSent = FALSE,
              !.writes = @ + 1]

\* lines 105-108: the error written onto the communication
ErrorUpdate(doc, error) ==
  [doc EXCEPT !.notificationSent = FALSE,
              !.notificationError = error,
              !.writes = @ + 1]

CommWriteBack(d) ==
  /\ commInv[d].pc = "write"
  /\ \/ /\ comm' = SuccessUpdate(comm, commInv[d].response)
        /\ commInv' = [commInv EXCEPT ![d] =
             [@ EXCEPT !.pc = "done", !.writes = @ + 1, !.result = "response"]]
     \/ /\ commInv' = [commInv EXCEPT ![d] =
             [@ EXCEPT !.pc = "catch", !.error = StoreError]]
        /\ UNCHANGED comm
  /\ UNCHANGED <<auth, pending, batch, users, booking, bookingInv, farmhouse, farmhouseInv, manualInv,
               panel>>

\* lines 101-111: the catch block
CommCatch(d) ==
  /\ commInv[d].pc = "catch"
  /\ \/ /\ comm' = ErrorUpdate(comm, commInv[d].error)
        /\ commInv' = [commInv EXCEPT ![d] =
             [@ EXCEPT !.pc = "done", !.writes = @ + 1, !.result = "null"]]
     \/ /\ commInv' = [commInv EXCEPT ![d] =
             [@ EXCEPT !.pc = "done", !.result = "threw"]]
        /\ UNCHANGED comm
  /\ UNCHANGED <<auth, pending, batch, users, booking, bookingInv, farmhouse, farmhouseInv, manualInv,
               panel>>

\* the delivery status cell of the communication history
DeliveryLabel(doc) ==
  IF doc.notificationSent THEN "sent"
  ELSE IF doc.notificationError # NoError THEN "Failed"
  ELSE "Pending"

(***************************************************************************)
(* sendBookingStatusNotification                                           *)
(***************************************************************************)
BookingStatuses == {"pending", "confirmed", "cancelled", "completed"}
PaymentStatuses == {Absent, "pending", "paid", "failed", "refunded"}

NoBooking ==
  [exists |-> FALSE, bookingStatus |-> "pending", paymentStatus |-> Absent,
   status |-> "pending", userId |-> NoId, user_id |-> NoId, other |-> 0,
   writes |-> 0]

NoPayload == [token |-> NoToken, title |-> "", body |-> ""]

\* origin names the writer of the update, failed the await that threw
IdleBookingInv ==
  [pc |-> "none", before |-> NoBooking, after |-> NoBooking,
   lookups |-> 0, calls |-> 0, payload |-> NoPayload, result |-> "none",
   origin |-> "none", failed |-> "none"]

\* lines 148-182: the notification text
BookingStatusMessage(bookingStatus) ==
  CASE bookingStatus = "confirmed" ->
         [title |-> "Booking Confirmed", body |-> "Your booking has been confirmed!"]
    [] bookingStatus = "cancelled" ->
         [title |-> "Booking Cancelled", body |-> "Your booking has been cancelled."]
    [] bookingStatus = "completed" ->
         [title |-> "Booking Completed", body |-> "Thank you for using our service!"]
    [] OTHER -> [title |-> "Booking Update", body |-> ""]

PaymentStatusMessage(paymentStatus) ==
  CASE paymentStatus = "paid" ->
         [title |-> "Payment Successful", body |-> "Your payment has been received."]
    [] paymentStatus = "failed" ->
         [title |-> "Payment Failed", body |-> "Your payment could not be processed."]
    [] paymentStatus = "refunded" ->
         [title |-> "Payment Refunded", body |-> "Your payment has been refunded."]
    [] OTHER -> [title |-> "Booking Update", body |-> ""]

\* the payment-status table consulted first
BookingMessagePaymentFirst(before, after) ==
  IF before.paymentStatus # after.paymentStatus
    THEN PaymentStatusMessage(after.paymentStatus)
  ELSE IF before.bookingStatus # after.bookingStatus
    THEN BookingStatusMessage(after.bookingStatus)
  ELSE [title |-> "Booking Update", body |-> ""]

BookingMessage(before, after) ==
  IF before.bookingStatus # after.bookingStatus
    THEN BookingStatusMessage(after.bookingStatus)
  ELSE IF before.paymentStatus # after.paymentStatus
    THEN PaymentStatusMessage(after.paymentStatus)
  ELSE [title |-> "Booking Update", body |-> ""]

\* the guard with its second comparison against the wrong field
BookingUnchangedWrongField(before, after) ==
  /\ before.bookingStatus = after.bookingStatus
  /\ before.paymentStatus = after.bookingStatus

\* lines 124-125: the change guard
BookingUnchanged(before, after) ==
  /\ before.bookingStatus = after.bookingStatus
  /\ before.paymentStatus = after.paymentStatus

\* line 131: after.userId || after.user_id
BookingUserId(after) == IF after.userId # NoId THEN after.userId ELSE after.user_id

\* a booking is created for a user (userId, or user_id in older documents)
CreateBooking(uid, legacy) ==
  /\ ~booking.exists
  /\ booking' = [NoBooking EXCEPT !.exists = TRUE,
                                  !.userId = IF legacy THEN NoId ELSE uid,
                                  !.user_id = IF legacy THEN uid ELSE NoId]
  /\ UNCHANGED <<auth, pending, batch, users, comm, commInv, bookingInv, farmhouse, farmhouseInv, manualInv,
               panel>>

\* a write to the booking document; the update event starts the handler
UpdateBooking(bs, ps, o) ==
  /\ booking.exists
  /\ bookingInv.pc \in {"none", "done"}
  /\ booking' = [booking EXCEPT !.bookingStatus = bs, !.paymentStatus = ps, !.other = o]
  /\ bookingInv' = [IdleBookingInv EXCEPT !.pc = "start", !.before = booking,
                                          !.after = booking', !.origin = "update"]
  /\ UNCHANGED <<auth, pending, batch, users, comm, commInv, farmhouse, farmhouseInv, manualInv,
               panel>>

\* lines 120-135: up to the first await
BookingStart ==
  /\ bookingInv.pc = "start"
  /\ bookingInv' =
       IF BookingUnchanged(bookingInv.before, bookingInv.after)
         THEN [bookingInv EXCEPT !.pc = "done", !.result = "null"]
       ELSE IF BookingUserId(bookingInv.after) = NoId
         THEN [bookingInv EXCEPT !.pc = "done", !.result = "null"]
       ELSE [bookingInv EXCEPT !.pc = "lookup"]
  /\ UNCHANGED <<auth, pending, batch, users, comm, commInv, booking, farmhouse, farmhouseInv, manualInv,
               panel>>

\* the token lookup without the check of the token read
BookingLookupNoTokenCheck ==
  /\ bookingInv.pc = "lookup"
  /\ \/ LET fcmToken == UserData(BookingUserId(bookingInv.after)).fcmToken
            message == BookingMessage(bookingInv.before, bookingInv.after) IN
        bookingInv' =
          [bookingInv EXCEPT !.pc = "send", !.lookups = @ + 1,
             !.payload = [token |-> fcmToken, title |-> message.title,
                          body |-> message.body]]
     \/ bookingInv' = [bookingInv EXCEPT !.pc = "done", !.lookups = @ + 1,
                                         !.result = "null", !.failed = "lookup"]
  /\ UNCHANGED <<auth, pending, batch, users, comm, commInv, booking, farmhouse, farmhouseInv, manualInv,
               panel>>

\* lines 137-212: the token lookup and the payload
BookingLookup ==
  /\ bookingInv.pc = "lookup"
  /\ \/ LET fcmToken == UserData(BookingUserId(bookingInv.after)).fcmToken
            message == BookingMessage(bookingInv.before, bookingInv.after) IN
        bookingInv' =
          IF fcmToken = NoToken
            THEN [bookingInv EXCEPT !.pc = "done", !.lookups = @ + 1, !.result = "null"]
            ELSE [bookingInv EXCEPT !.pc = "send", !.lookups = @ + 1,
                    !.payload = [token |-> fcmToken, title |-> message.title,
                                 body |-> message.body]]
     \/ \* the read throws: logged, null returned
        bookingInv' = [bookingInv EXCEPT !.pc = "done", !.lookups = @ + 1,
                                         !.result = "null", !.failed = "lookup"]
  /\ UNCHANGED <<auth, pending, batch, users, comm, commInv, booking, farmhouse, farmhouseInv, manualInv,
               panel>>

\* lines 214-221: the send
BookingSend ==
  /\ bookingInv.pc = "send"
  /\ \/ bookingInv' = [bookingInv EXCEPT !.pc = "done", !.calls = @ + 1, !.result = "true"]
     \/ bookingInv' = [bookingInv EXCEPT !.pc = "done", !.calls = @ + 1, !.result = "null",
                                         !.failed = "send"]
  /\ UNCHANGED <<auth, pending, batch, users, comm, commInv, booking, farmhouse, farmhouseInv, manualInv,
               panel>>

(***************************************************************************)
(* sendFarmhouseStatusNotification                                         *)
(***************************************************************************)
ApprovalValues == {Absent, "true", "false"}
FarmhouseStatuses == {"pending", "approved", "rejected"}
NamePatterns == {"name", "farmhouse_name", "none"}

NoFarmhouse ==
  [exists |-> FALSE, isApproved |-> Absent, status |-> "pending",
   ownerId |-> NoId, owner_id |-> NoId, name |-> Absent,
   farmhouse_name |-> Absent, other |-> 0, writes |-> 0]

IdleFarmhouseInv ==
  [pc |-> "none", before |-> NoFarmhouse, after |-> NoFarmhouse,
   lookups |-> 0, calls |-> 0, payload |-> NoPayload, result |-> "none",
   origin |-> "none", failed |-> "none"]

\* line 240: after.ownerId || after.owner_id
FarmhouseOwnerId(after) == IF after.ownerId # NoId THEN after.ownerId ELSE after.owner_id

\* line 258: after.name || after.farmhouse_name || 'Your farmhouse'
FarmhouseName(after) ==
  IF after.name # Absent THEN after.name
  ELSE IF after.farmhouse_name # Absent THEN after.farmhouse_name
  ELSE "Your farmhouse"

\* lines 259-262: title and body
FarmhouseMessage(after) ==
  IF after.isApproved = "true"
    THEN [title |-> "Farmhouse Approved!",
          body |-> <<FarmhouseName(after), " has been approved and is now live!">>]
    ELSE [title |-> "Farmhouse Status Update",
          body |-> <<FarmhouseName(after), " status has been updated.">>]

\* the guard on the status field the admin panel writes
FarmhouseUnchangedByStatus(before, after) == before.status = after.status

\* line 234: the change guard
FarmhouseUnchanged(before, after) == before.isApproved = after.isApproved

CreateFarmhouse(oid, legacy, np) ==
  /\ ~farmhouse.exists
  /\ farmhouse' = [NoFarmhouse EXCEPT
       !.exists = TRUE,
       !.ownerId = IF legacy THEN NoId ELSE oid,
       !.owner_id = IF legacy THEN oid ELSE NoId,
       !.name = IF np = "name" THEN "Green Villa" ELSE Absent,
       !.farmhouse_name = IF np = "farmhouse_name" THEN "Hill Farm" ELSE Absent]
  /\ UNCHANGED <<auth, pending, batch, users, comm, commInv, booking, bookingInv, farmhouseInv, manualInv,
               panel>>

\* a write to the farmhouse document; the update event starts the handler
UpdateFarmhouse(ia, st, o) ==
  /\ farmhouse.exists
  /\ farmhouseInv.pc \in {"none", "done"}
  /\ farmhouse' = [farmhouse EXCEPT !.isApproved = ia, !.status = st, !.other = o]
  /\ farmhouseInv' = [IdleFarmhouseInv EXCEPT !.pc = "start", !.before = farmhouse,
                                              !.after = farmhouse',
                                              !.origin = "update"]
  /\ UNCHANGED <<auth, pending, batch, users, comm, commInv, booking, bookingInv, manualInv,
               panel>>

\* lines 230-244: up to the first await
FarmhouseStart ==
  /\ farmhouseInv.pc = "start"
  /\ farmhouseInv' =
       IF FarmhouseUnchanged(farmhouseInv.before, farmhouseInv.after)
         THEN [farmhouseInv EXCEPT !.pc = "done", !.result = "null"]
       ELSE IF FarmhouseOwnerId(farmhouseInv.after) = NoId
         THEN [farmhouseInv EXCEPT !.pc = "done", !.result = "null"]
       ELSE [farmhouseInv EXCEPT !.pc = "lookup"]
  /\ UNCHANGED <<auth, pending, batch, users, comm, commInv, booking, bookingInv, farmhouse, manualInv,
               panel>>

\* lines 246-291: the token lookup and the payload
FarmhouseLookup ==
  /\ farmhouseInv.pc = "lookup"
  /\ \/ LET fcmToken == UserData(FarmhouseOwnerId(farmhouseInv.after)).fcmToken
            message == FarmhouseMessage(farmhouseInv.after) IN
        farmhouseInv' =
          IF fcmToken = NoToken
            THEN [farmhouseInv EXCEPT !.pc = "done", !.lookups = @ + 1, !.result = "null"]
            ELSE [farmhouseInv EXCEPT !.pc = "send", !.lookups = @ + 1,
                    !.payload = [token |-> fcmToken, title |-> message.title,
                                 body |-> message.body]]
     \/ farmhouseInv' = [farmhouseInv EXCEPT !.pc = "done", !.lookups = @ + 1,
                                             !.result = "null", !.failed = "lookup"]
  /\ UNCHANGED <<auth, pending, batch, users, comm, commInv, booking, bookingInv, farmhouse, manualInv,
               panel>>

\* the send with a catch block that rethrows
FarmhouseSendRethrow ==
  /\ farmhouseInv.pc = "send"
  /\ \/ farmhouseInv' = [farmhouseInv EXCEPT !.pc = "done", !.calls = @ + 1,
                                             !.result = "true"]
     \/ farmhouseInv' = [farmhouseInv EXCEPT !.pc = "done", !.calls = @ + 1,
                                             !.result = "threw", !.failed = "send"]
  /\ UNCHANGED <<auth, pending, batch, users, comm, commInv, booking, bookingInv, farmhouse, manualInv,
               panel>>

\* lines 293-300: the send
FarmhouseSend ==
  /\ farmhouseInv.pc = "send"
  /\ \/ farmhouseInv' = [farmhouseInv EXCEPT !.pc = "done", !.calls = @ + 1,
                                             !.result = "true"]
     \/ farmhouseInv' = [farmhouseInv EXCEPT !.pc = "done", !.calls = @ + 1,
                                             !.result = "null", !.failed = "send"]
  /\ UNCHANGED <<auth, pending, batch, users, comm, commInv, booking, bookingInv, farmhouse, manualInv,
               panel>>

(***************************************************************************)
(* sendManualNotification                                                  *)
(***************************************************************************)
\* the tokens argument: undefined, or a list of tokens
NoTokens == [defined |-> FALSE, list |-> << >>]
TokenLists ==
  { NoTokens } \cup
  { [defined |-> TRUE, list |-> l] : l \in { << >>, <<"tA">>, <<"tA", "tX">> } }
Titles == {"", "Hi"}
Bodies == {"", "Hello"}

IdleManualInv ==
  [pc |-> "none", caller |-> NoId, title |-> "", body |-> "", tokens |-> NoTokens,
   lookups |-> 0, calls |-> 0, sentTo |-> << >>, response |-> NoResponse,
   error |-> NoError, result |-> "none"]

\* the role check letting every role but 'user' through
ManualNotAdminOnlyUsers(userData) == userData.role \in {"user", Absent}

\* line 322: userDoc.data()?.role !== 'admin'
ManualNotAdmin(userData) == userData.role # "admin"

\* the validation without the length check
ManualArgsMissingNoLength(title, body, tokens) ==
  \/ title = ""
  \/ body = ""
  \/ ~tokens.defined

\* line 331: the required fields
ManualArgsMissing(title, body, tokens) ==
  \/ title = ""
  \/ body = ""
  \/ ~tokens.defined
  \/ Len(tokens.list) = 0

\* the callable is invoked; caller NoId is an unauthenticated caller
ManualCall(caller, title, body, tokens) ==
  /\ manualInv.pc \in {"none", "done"}
  /\ manualInv' = [IdleManualInv EXCEPT !.pc = "start", !.caller = caller,
                     !.title = title, !.body = body, !.tokens = tokens]
  /\ UNCHANGED <<auth, pending, batch, users, comm, commInv, booking, bookingInv, farmhouse, farmhouseInv,
               panel>>

\* lines 309-314: the authentication check
ManualStart ==
  /\ manualInv.pc = "start"
  /\ manualInv' =
       IF manualInv.caller = NoId
         THEN [manualInv EXCEPT !.pc = "done", !.result = "error",
                                !.error = "unauthenticated"]
         ELSE [manualInv EXCEPT !.pc = "lookup"]
  /\ UNCHANGED <<auth, pending, batch, users, comm, commInv, booking, bookingInv, farmhouse, farmhouseInv,
               panel>>

\* lines 317-336: the role check and the validation of the arguments
ManualLookup ==
  /\ manualInv.pc = "lookup"
  /\ \/ manualInv' =
          IF ManualNotAdmin(UserData(manualInv.caller))
            THEN [manualInv EXCEPT !.pc = "done", !.lookups = @ + 1,
                                   !.result = "error", !.error = "permission-denied"]
          ELSE IF ManualArgsMissing(manualInv.title, manualInv.body, manualInv.tokens)
            THEN [manualInv EXCEPT !.pc = "done", !.lookups = @ + 1,
                                   !.result = "error", !.error = "invalid-argument"]
          ELSE [manualInv EXCEPT !.pc = "send", !.lookups = @ + 1]
     \/ \* the read throws: the rejection is not caught by the handler
        manualInv' = [manualInv EXCEPT !.pc = "done", !.lookups = @ + 1,
                                       !.result = "error", !.error = "unhandled"]
  /\ UNCHANGED <<auth, pending, batch, users, comm, commInv, booking, bookingInv, farmhouse, farmhouseInv,
               panel>>

\* lines 338-376: the batched send
ManualSend ==
  /\ manualInv.pc = "send"
  /\ \/ \E r \in MulticastResponses(manualInv.tokens.list) :
          manualInv' = [manualInv EXCEPT !.pc = "done", !.calls = @ + 1,
                          !.sentTo = manualInv.tokens.list, !.response = r,
                          !.result = "success"]
     \/ manualInv' = [manualInv EXCEPT !.pc = "done", !.calls = @ + 1,
                        !.sentTo = manualInv.tokens.list,
                        !.result = "error", !.error = "internal"]
  /\ UNCHANGED <<auth, pending, batch, users, comm, commInv, booking, bookingInv, farmhouse, farmhouseInv,
               panel>>

(***************************************************************************)
(* The admin panel: farmhouse approval                                     *)
(*   FarmhouseDetailModal.handleConfirmApproval                            *)
(*   AllFarmhouses.handleApprove / handleReject                            *)
(***************************************************************************)
ApprovalTypes == {"approve", "reject"}

\* updateDoc(farmhouseRef, {status: ..., approved_at / rejected_at: ...})
\* the timestamp fields written along are the document's other fields
PanelFarmhouseUpdate(f, type) ==
  [f EXCEPT !.status = IF type = "approve" THEN "approved" ELSE "rejected",
            !.other = 1 - @]

\* the update event of a panel write starts sendFarmhouseStatusNotification
PanelFarmhouseEvent(before, after) ==
  [IdleFarmhouseInv EXCEPT !.pc = "start", !.before = before, !.after = after,
                           !.origin = "panel"]

\* lines 106-111: the items of the verification checklist
ChecklistItems ==
  {"documentsVerified", "photosQuality", "pricingReasonable", "locationVerified"}

\* line 578: the values typed into the commission field
CommissionValues == {-1, 10, 101}

\* lines 100-111: the state of the modal that a run of handleConfirmApproval
\* does not touch; completed records that the checklist was all checked at
\* some point since the modal was opened
ModalState(p) ==
  [IdlePanel EXCEPT !.modalOpen = p.modalOpen, !.checklist = p.checklist,
                    !.commission = p.commission, !.completed = p.completed]

\* the modal between two runs of handleConfirmApproval: the outcome of the
\* last run is no longer shown
ModalUi(p) ==
  [ModalState(p) EXCEPT !.approvalType = p.approvalType, !.dialogOpen = p.dialogOpen]

\* lines 113-125: the modal is opened; the effect resets the tab, the
\* commission and the checklist, the approval dialog state is kept
ModalOpen ==
  /\ ~panel.modalOpen
  /\ panel.pc \in {"idle", "done"}
  /\ farmhouse.exists
  /\ panel' = [IdlePanel EXCEPT
                 !.modalOpen = TRUE,
                 !.approvalType =
                    IF panel.approvalType = "none" THEN "approve" ELSE panel.approvalType,
                 !.dialogOpen = panel.dialogOpen]
  /\ UNCHANGED <<auth, pending, batch, users, comm, commInv, booking, bookingInv,
               farmhouse, farmhouseInv, manualInv>>

\* lines 275-283: onClose of the modal; the approval dialog is shown above
\* the modal, which can be closed only once that dialog is closed
ModalClose ==
  /\ panel.modalOpen
  /\ ~panel.dialogOpen
  /\ panel.pc \in {"idle", "done"}
  /\ panel' = [ModalUi(panel) EXCEPT !.modalOpen = FALSE]
  /\ UNCHANGED <<auth, pending, batch, users, comm, commInv, booking, bookingInv,
               farmhouse, farmhouseInv, manualInv>>

\* lines 127-129: handleChecklistChange(key)
HandleChecklistChange(key) ==
  /\ panel.modalOpen
  /\ ~panel.dialogOpen
  /\ panel.pc \in {"idle", "done"}
  /\ LET checklist == IF key \in panel.checklist
                        THEN panel.checklist \ {key}
                        ELSE panel.checklist \cup {key} IN
     panel' = [ModalUi(panel) EXCEPT !.checklist = checklist,
                            !.completed = @ \/ checklist = ChecklistItems]
  /\ UNCHANGED <<auth, pending, batch, users, comm, commInv, booking, bookingInv,
               farmhouse, farmhouseInv, manualInv>>

\* line 578: setCommission(Number(e.target.value))
SetCommission(value) ==
  /\ panel.modalOpen
  /\ ~panel.dialogOpen
  /\ panel.pc \in {"idle", "done"}
  /\ value # panel.commission
  /\ panel' = [ModalUi(panel) EXCEPT !.commission = value]
  /\ UNCHANGED <<auth, pending, batch, users, comm, commInv, booking, bookingInv,
               farmhouse, farmhouseInv, manualInv>>

\* an approve handler that checks the commission only
HandleApproveNoChecklist ==
  /\ panel.modalOpen
  /\ ~panel.dialogOpen
  /\ panel.pc \in {"idle", "done"}
  /\ panel' =
       IF panel.commission < 0 \/ panel.commission > 100
         THEN [ModalUi(panel) EXCEPT !.report = "warning"]
       ELSE [ModalUi(panel) EXCEPT !.approvalType = "approve", !.dialogOpen = TRUE]
  /\ UNCHANGED <<auth, pending, batch, users, comm, commInv, booking, bookingInv,
               farmhouse, farmhouseInv, manualInv>>

\* lines 131-143: handleApprove
HandleApprove ==
  /\ panel.modalOpen
  /\ ~panel.dialogOpen
  /\ panel.pc \in {"idle", "done"}
  /\ panel' =
       IF panel.checklist # ChecklistItems
         THEN [ModalUi(panel) EXCEPT !.report = "warning"]
       ELSE IF panel.commission < 0 \/ panel.commission > 100
         THEN [ModalUi(panel) EXCEPT !.report = "warning"]
       ELSE [ModalUi(panel) EXCEPT !.approvalType = "approve", !.dialogOpen = TRUE]
  /\ UNCHANGED <<auth, pending, batch, users, comm, commInv, booking, bookingInv,
               farmhouse, farmhouseInv, manualInv>>

\* lines 145-148: handleReject
HandleReject ==
  /\ panel.modalOpen
  /\ ~panel.dialogOpen
  /\ panel.pc \in {"idle", "done"}
  /\ panel' = [ModalUi(panel) EXCEPT !.approvalType = "reject", !.dialogOpen = TRUE]
  /\ UNCHANGED <<auth, pending, batch, users, comm, commInv, booking, bookingInv,
               farmhouse, farmhouseInv, manualInv>>

\* line 683: onClose of the approval dialog
DialogClose ==
  /\ panel.dialogOpen
  /\ panel.pc \in {"idle", "done"}
  /\ panel' = [ModalUi(panel) EXCEPT !.dialogOpen = FALSE]
  /\ UNCHANGED <<auth, pending, batch, users, comm, commInv, booking, bookingInv,
               farmhouse, farmhouseInv, manualInv>>

\* lines 150-160: handleConfirmApproval up to its first await
ModalConfirm(type, reason, cu, validId) ==
  /\ panel.pc \in {"idle", "done"}
  /\ farmhouse.exists
  /\ panel' =
       IF ~validId
         THEN [ModalState(panel) EXCEPT !.flow = "modal", !.pc = "done", !.approvalType = type,
                                !.reason = reason, !.currentUser = cu,
                                !.dialogOpen = TRUE, !.report = "error"]
       ELSE IF type = "reject" /\ ~reason
         THEN [ModalState(panel) EXCEPT !.flow = "modal", !.pc = "done", !.approvalType = type,
                                !.reason = reason, !.currentUser = cu]
       ELSE [ModalState(panel) EXCEPT !.flow = "modal", !.pc = "write", !.approvalType = type,
                              !.reason = reason, !.currentUser = cu,
                              !.dialogOpen = TRUE, !.loading = TRUE]
  /\ UNCHANGED <<auth, pending, batch, users, comm, commInv, booking, bookingInv, farmhouse, farmhouseInv,
               manualInv>>

\* line 684: onConfirm of the approval dialog runs handleConfirmApproval with
\* the approval type the dialog was opened with
DialogConfirm(reason, cu, validId) ==
  /\ panel.modalOpen
  /\ panel.dialogOpen
  /\ ModalConfirm(panel.approvalType, reason, cu, validId)

\* lines 161-171, 219-224: the write of the farmhouse status; the owner id
\* that the helper of the types module returns is present or not
ModalWrite ==
  /\ panel.flow = "modal" /\ panel.pc = "write"
  /\ \/ /\ farmhouseInv.pc \in {"none", "done"}
        /\ farmhouse' = PanelFarmhouseUpdate(farmhouse, panel.approvalType)
        /\ farmhouseInv' = PanelFarmhouseEvent(farmhouse, farmhouse')
        /\ \E hasOwnerId \in BOOLEAN :
             panel' = [panel EXCEPT !.wrote = TRUE,
               !.pc = IF panel.approvalType = "approve" /\ hasOwnerId
                        THEN "kycRead" ELSE "history"]
     \/ /\ panel' = [panel EXCEPT !.pc = "done", !.report = "error", !.loading = FALSE]
        /\ UNCHANGED <<farmhouse, farmhouseInv>>
  /\ UNCHANGED <<auth, pending, batch, users, comm, commInv, booking, bookingInv, manualInv>>

\* lines 172-177, 183-186: the read of the owner's record
ModalKycRead ==
  /\ panel.flow = "modal" /\ panel.pc = "kycRead"
  /\ \/ \E hasKyc \in BOOLEAN :
          panel' = [panel EXCEPT !.pc = IF hasKyc THEN "kycWrite" ELSE "history"]
     \/ panel' = [panel EXCEPT !.pc = "history", !.kyc = "failed"]
  /\ UNCHANGED <<auth, pending, batch, users, comm, commInv, booking, bookingInv, farmhouse, farmhouseInv,
               manualInv>>

\* lines 178-186: the update of the owner's KYC status
ModalKycWrite ==
  /\ panel.flow = "modal" /\ panel.pc = "kycWrite"
  /\ \E outcome \in {"updated", "failed"} :
       panel' = [panel EXCEPT !.pc = "history", !.kyc = outcome]
  /\ UNCHANGED <<auth, pending, batch, users, comm, commInv, booking, bookingInv, farmhouse, farmhouseInv,
               manualInv>>

\* the approval_history entry written outside a try block
ModalHistoryRethrow ==
  /\ panel.flow = "modal" /\ panel.pc = "history"
  /\ \/ panel' = [panel EXCEPT !.pc = "audit", !.history = "written"]
     \/ panel' = [panel EXCEPT !.pc = "done", !.history = "failed", !.report = "error",
                               !.loading = FALSE]
  /\ UNCHANGED <<auth, pending, batch, users, comm, commInv, booking, bookingInv,
               farmhouse, farmhouseInv, manualInv>>

\* lines 190-201, 227-237: the approval_history entry
ModalHistory ==
  /\ panel.flow = "modal" /\ panel.pc = "history"
  /\ \E outcome \in {"written", "failed"} :
       panel' = [panel EXCEPT !.pc = "audit", !.history = outcome]
  /\ UNCHANGED <<auth, pending, batch, users, comm, commInv, booking, bookingInv, farmhouse, farmhouseInv,
               manualInv>>

\* useAuditLog.log lines 12-30: without a signed-in user nothing is logged,
\* otherwise the addDoc of logAuditAction stores the entry or fails
AuditOutcomes(currentUser) ==
  IF ~currentUser THEN {"skipped"} ELSE {"stored", "failed"}

\* a logAuditAction whose catch block rethrows
LogAuditActionRethrow(outcome) ==
  IF outcome = "failed" THEN "rejected" ELSE "resolved"

\* auditLog.ts lines 24-47: the addDoc is inside try, the catch block only
\* logs to the console
LogAuditAction(outcome) == "resolved"

\* lines 204-215, 240-266: the audit log entry and the end of the handler
ModalAudit ==
  /\ panel.flow = "modal" /\ panel.pc = "audit"
  /\ \E outcome \in AuditOutcomes(panel.currentUser) :
       panel' =
         IF LogAuditAction(outcome) = "rejected"
           THEN [panel EXCEPT !.pc = "done", !.audit = outcome, !.report = "error",
                              !.loading = FALSE]
           ELSE [panel EXCEPT !.pc = "done", !.audit = outcome, !.report = "success",
                              !.dialogOpen = FALSE, !.loading = FALSE]
  /\ UNCHANGED <<auth, pending, batch, users, comm, commInv, booking, bookingInv, farmhouse, farmhouseInv,
               manualInv>>

\* AllFarmhouses.handleApprove / handleReject up to the first await
ListDecide(type) ==
  /\ panel.pc \in {"idle", "done"}
  /\ farmhouse.exists
  /\ panel' = [IdlePanel EXCEPT !.flow = "list", !.pc = "write", !.approvalType = type]
  /\ UNCHANGED <<auth, pending, batch, users, comm, commInv, booking, bookingInv, farmhouse, farmhouseInv,
               manualInv>>

\* AllFarmhouses lines 350-354, 377-380: the write of the farmhouse status
ListWrite ==
  /\ panel.flow = "list" /\ panel.pc = "write"
  /\ \/ /\ farmhouseInv.pc \in {"none", "done"}
        /\ farmhouse' = PanelFarmhouseUpdate(farmhouse, panel.approvalType)
        /\ farmhouseInv' = PanelFarmhouseEvent(farmhouse, farmhouse')
        /\ panel' = [panel EXCEPT !.wrote = TRUE, !.pc = "trail"]
     \/ /\ panel' = [panel EXCEPT !.pc = "done", !.report = "error"]
        /\ UNCHANGED <<farmhouse, farmhouseInv>>
  /\ UNCHANGED <<auth, pending, batch, users, comm, commInv, booking, bookingInv, manualInv>>

\* AllFarmhouses lines 357-369, 383-395: the audit_trail entry
ListTrail ==
  /\ panel.flow = "list" /\ panel.pc = "trail"
  /\ \/ panel' = [panel EXCEPT !.pc = "done", !.audit = "stored", !.report = "success"]
     \/ panel' = [panel EXCEPT !.pc = "done", !.audit = "failed", !.report = "error"]
  /\ UNCHANGED <<auth, pending, batch, users, comm, commInv, booking, bookingInv, farmhouse, farmhouseInv,
               manualInv>>

(***************************************************************************)
(* The admin panel: BookingsManagement.handleCancelBooking                 *)
(***************************************************************************)
\* lines 210-216: updateDoc(bookings/<id>, {status: 'cancelled', ...}); the
\* reason and timestamps written along are the document's other fields
PanelBookingCancel(b) == [b EXCEPT !.status = "cancelled", !.other = 1 - @]

\* lines 202-209: the guards of handleCancelBooking, up to the first await;
\* selectedBooking is the row as it was listed
HandleCancelBooking(hasId, reason) ==
  /\ panel.pc \in {"idle", "done"}
  /\ booking.exists
  /\ panel' =
       IF ~hasId
         THEN [IdlePanel EXCEPT !.flow = "cancel", !.pc = "done", !.reason = reason,
                                !.dialogOpen = TRUE]
       ELSE IF ~reason
         THEN [IdlePanel EXCEPT !.flow = "cancel", !.pc = "done", !.reason = reason,
                                !.dialogOpen = TRUE, !.report = "warning"]
       ELSE [IdlePanel EXCEPT !.flow = "cancel", !.pc = "write", !.reason = reason,
                              !.dialogOpen = TRUE, !.loading = TRUE,
                              !.paid = (booking.paymentStatus = "paid")]
  /\ UNCHANGED <<auth, pending, batch, users, comm, commInv, booking, bookingInv, farmhouse, farmhouseInv,
               manualInv>>

\* lines 210-216, 241-246: the write of the cancellation; its update event
\* starts sendBookingStatusNotification
CancelWrite ==
  /\ panel.flow = "cancel" /\ panel.pc = "write"
  /\ \/ /\ bookingInv.pc \in {"none", "done"}
        /\ booking' = PanelBookingCancel(booking)
        /\ bookingInv' = [IdleBookingInv EXCEPT !.pc = "start", !.before = booking,
                                                !.after = booking', !.origin = "cancel"]
        /\ panel' = [panel EXCEPT !.wrote = TRUE, !.pc = "trail"]
     \/ /\ panel' = [panel EXCEPT !.pc = "done", !.report = "error", !.loading = FALSE]
        /\ UNCHANGED <<booking, bookingInv>>
  /\ UNCHANGED <<auth, pending, batch, users, comm, commInv, farmhouse, farmhouseInv, manualInv>>

\* lines 219-246: the audit_trail entry and the end of the handler
CancelTrail ==
  /\ panel.flow = "cancel" /\ panel.pc = "trail"
  /\ \/ panel' = [panel EXCEPT !.pc = "done", !.audit = "stored", !.report = "success",
                               !.dialogOpen = FALSE, !.refundDialogOpen = panel.paid,
                               !.loading = FALSE]
     \/ panel' = [panel EXCEPT !.pc = "done", !.audit = "failed", !.report = "error",
                               !.loading = FALSE]
  /\ UNCHANGED <<auth, pending, batch, users, comm, commInv, booking, bookingInv, farmhouse, farmhouseInv,
               manualInv>>

(***************************************************************************)
(* The admin panel: CommunicationCenter.handleSendMessage                  *)
(***************************************************************************)
\* part_002 lines 840-869: the values of the recipient selector
SelectorTypes ==
  {"all_users", "all_owners", "farmhouse_owners", "active_users", "specific_user"}

\* part_002 lines 724-738: the selectors whose recipient count reads the store
CountedTypes == {"all_users", "all_owners", "farmhouse_owners", "active_users"}

\* line 736: new Set(docs.map(doc => doc.data().ownerId || doc.data().owner_id))
\* over the farmhouses collection
FarmhouseOwnerIds ==
  IF farmhouse.exists THEN {FarmhouseOwnerId(farmhouse)} ELSE {}

\* lines 723-738: the recipient count shown to the admin
RecipientCount(rt) ==
  CASE rt = "all_users" -> Cardinality(Users)
    [] rt = "active_users" -> Cardinality({u \in Users : users[u].is_active})
    [] rt = "all_owners" -> Cardinality({u \in Users : users[u].role = "owner"})
    [] rt = "farmhouse_owners" -> Cardinality(FarmhouseOwnerIds)
    [] OTHER -> 0

\* lines 713-721: the guard of handleSendMessage, up to the first await
HandleSendMessage(rt, filled) ==
  /\ panel.pc \in {"idle", "done"}
  /\ ~comm.exists
  /\ panel' =
       IF ~filled
         THEN [IdlePanel EXCEPT !.flow = "message", !.pc = "done", !.recipientType = rt,
                                !.report = "warning"]
         ELSE [IdlePanel EXCEPT !.flow = "message", !.recipientType = rt,
                                !.loading = TRUE,
                                !.pc = IF rt \in CountedTypes THEN "count" ELSE "add"]
  /\ UNCHANGED <<auth, pending, batch, users, comm, commInv, booking, bookingInv, farmhouse, farmhouseInv,
               manualInv>>

\* lines 724-738, 754-759: the read that counts the recipients
SendCount ==
  /\ panel.flow = "message" /\ panel.pc = "count"
  /\ \/ panel' = [panel EXCEPT !.pc = "add", !.count = RecipientCount(panel.recipientType)]
     \/ panel' = [panel EXCEPT !.pc = "done", !.report = "error", !.loading = FALSE]
  /\ UNCHANGED <<auth, pending, batch, users, comm, commInv, booking, bookingInv, farmhouse, farmhouseInv,
               manualInv>>

\* lines 740-759: the communication is added; its creation event starts
\* sendCommunicationNotification
SendAdd ==
  /\ panel.flow = "message" /\ panel.pc = "add"
  /\ \/ /\ ~comm.exists
        /\ comm' = [NoComm EXCEPT !.exists = TRUE,
                                  !.recipientType = panel.recipientType,
                                  !.recipientCount = panel.count,
                                  !.sentBy = "panel"]
        /\ panel' = [panel EXCEPT !.pc = "done", !.wrote = TRUE, !.report = "success",
                                  !.loading = FALSE]
     \/ /\ panel' = [panel EXCEPT !.pc = "done", !.report = "error", !.loading = FALSE]
        /\ UNCHANGED comm
  /\ UNCHANGED <<auth, pending, batch, users, commInv, booking, bookingInv, farmhouse, farmhouseInv,
               manualInv>>

(***************************************************************************)
(* The admin panel: BookingsManagement.handleSaveEdit, handleProcessRefund *)
(***************************************************************************)
\* an edit that also sets the booking status
PanelBookingEditWithStatus(b) ==
  [b EXCEPT !.bookingStatus = "confirmed", !.other = 1 - @]

\* lines 162-168: updateDoc(bookings/<id>, {checkInDate, checkOutDate, guests,
\* totalPrice, updatedAt}); all of them are the document's other fields
PanelBookingEdit(b) == [b EXCEPT !.other = 1 - @]

\* lines 255-261: updateDoc(bookings/<id>, {paymentStatus: 'refunded', ...})
PanelBookingRefund(b) == [b EXCEPT !.paymentStatus = "refunded", !.other = 1 - @]

\* the update event of a panel write starts sendBookingStatusNotification
PanelBookingEvent(before, after, origin) ==
  [IdleBookingInv EXCEPT !.pc = "start", !.before = before, !.after = after,
                         !.origin = origin]

\* lines 157-161: handleSaveEdit up to the first await; the edit modal is open
HandleSaveEdit(hasId) ==
  /\ panel.pc \in {"idle", "done"}
  /\ booking.exists
  /\ panel' =
       IF ~hasId
         THEN [IdlePanel EXCEPT !.flow = "edit", !.pc = "done", !.dialogOpen = TRUE]
         ELSE [IdlePanel EXCEPT !.flow = "edit", !.pc = "write", !.dialogOpen = TRUE,
                                !.loading = TRUE]
  /\ UNCHANGED <<auth, pending, batch, users, comm, commInv, booking, bookingInv, farmhouse, farmhouseInv,
               manualInv>>

\* lines 162-168, 187-192: the write of the edited fields
EditWrite ==
  /\ panel.flow = "edit" /\ panel.pc = "write"
  /\ \/ /\ bookingInv.pc \in {"none", "done"}
        /\ booking' = PanelBookingEdit(booking)
        /\ bookingInv' = PanelBookingEvent(booking, booking', "edit")
        /\ panel' = [panel EXCEPT !.wrote = TRUE, !.pc = "trail"]
     \/ /\ panel' = [panel EXCEPT !.pc = "done", !.report = "error", !.loading = FALSE]
        /\ UNCHANGED <<booking, bookingInv>>
  /\ UNCHANGED <<auth, pending, batch, users, comm, commInv, farmhouse, farmhouseInv, manualInv>>

\* lines 171-192: the audit_trail entry and the end of handleSaveEdit
EditTrail ==
  /\ panel.flow = "edit" /\ panel.pc = "trail"
  /\ \/ panel' = [panel EXCEPT !.pc = "done", !.audit = "stored", !.report = "success",
                               !.dialogOpen = FALSE, !.loading = FALSE]
     \/ panel' = [panel EXCEPT !.pc = "done", !.audit = "failed", !.report = "error",
                               !.loading = FALSE]
  /\ UNCHANGED <<auth, pending, batch, users, comm, commInv, booking, bookingInv, farmhouse, farmhouseInv,
               manualInv>>

\* lines 249-253: handleProcessRefund up to the first await; its button is in
\* the refund dialog
HandleProcessRefund(hasId) ==
  /\ panel.pc = "done"
  /\ panel.refundDialogOpen
  /\ booking.exists
  /\ panel' =
       IF ~hasId
         THEN [IdlePanel EXCEPT !.flow = "refund", !.pc = "done",
                                !.refundDialogOpen = TRUE]
         ELSE [IdlePanel EXCEPT !.flow = "refund", !.pc = "write",
                                !.refundDialogOpen = TRUE, !.loading = TRUE]
  /\ UNCHANGED <<auth, pending, batch, users, comm, commInv, booking, bookingInv, farmhouse, farmhouseInv,
               manualInv>>

\* lines 254-261, 281-286: the write of the refund
RefundWrite ==
  /\ panel.flow = "refund" /\ panel.pc = "write"
  /\ \/ /\ bookingInv.pc \in {"none", "done"}
        /\ booking' = PanelBookingRefund(booking)
        /\ bookingInv' = PanelBookingEvent(booking, booking', "refund")
        /\ panel' = [panel EXCEPT !.wrote = TRUE, !.pc = "trail"]
     \/ /\ panel' = [panel EXCEPT !.pc = "done", !.report = "error", !.loading = FALSE]
        /\ UNCHANGED <<booking, bookingInv>>
  /\ UNCHANGED <<auth, pending, batch, users, comm, commInv, farmhouse, farmhouseInv, manualInv>>

\* lines 264-286: the audit_trail entry and the end of handleProcessRefund
RefundTrail ==
  /\ panel.flow = "refund" /\ panel.pc = "trail"
  /\ \/ panel' = [panel EXCEPT !.pc = "done", !.audit = "stored", !.report = "success",
                               !.refundDialogOpen = FALSE, !.loading = FALSE]
     \/ panel' = [panel EXCEPT !.pc = "done", !.audit = "failed", !.report = "error",
                               !.loading = FALSE]
  /\ UNCHANGED <<auth, pending, batch, users, comm, commInv, booking, bookingInv, farmhouse, farmhouseInv,
               manualInv>>

(***************************************************************************)
(* The admin panel: PrivateRoute                                           *)
(***************************************************************************)
\* the values of userRole in the auth context; Absent is null
UserRoles == {Absent, "admin", "owner", "user"}

\* a route that checks the signed-in user only
PrivateRouteNoRoleCheck(loading, currentUser, userRole) ==
  IF loading THEN "spinner"
  ELSE IF ~currentUser THEN "redirect"
  ELSE "children"

\* PrivateRoute.tsx lines 10-30: what the component renders
PrivateRoute(loading, currentUser, userRole) ==
  IF loading THEN "spinner"
  ELSE IF ~currentUser \/ userRole # "admin" THEN "redirect"
  ELSE "children"

\* line 11: the auth context before the auth state is known
NoAuth ==
  [loading |-> TRUE, currentUser |-> FALSE, userRole |-> Absent,
   rendered |-> PrivateRoute(TRUE, FALSE, Absent)]

\* the auth context changes and the component renders again
AuthStateChange(loading, currentUser, userRole) ==
  /\ <<loading, currentUser, userRole>> #
       <<auth.loading, auth.currentUser, auth.userRole>>
  /\ auth' = [loading |-> loading, currentUser |-> currentUser, userRole |-> userRole,
              rendered |-> PrivateRoute(loading, currentUser, userRole)]
  /\ UNCHANGED <<pending, batch, users, comm, commInv, booking, bookingInv, farmhouse,
               farmhouseInv, manualInv, panel>>

(***************************************************************************)
(* The admin panel: PendingCountProvider                                   *)
(***************************************************************************)
MaxPending == 2
SnapshotSizes == 0..MaxPending

\* lines 19-21: the provider before it is mounted; last* is the size of the
\* most recent snapshot delivered to the listener
NoProvider ==
  [mounted |-> FALSE, farmhouseListeners |-> 0, kycListeners |-> 0,
   pendingFarmhouses |-> 0, pendingKYC |-> 0,
   lastFarmhouses |-> 0, lastKYC |-> 0,
   farmhouseErrors |-> FALSE, kycErrors |-> FALSE]

\* lines 23-53, 56-59: the effect subscribes both listeners
ProviderMount ==
  /\ ~pending.mounted
  /\ pending' = [NoProvider EXCEPT !.mounted = TRUE,
                   !.farmhouseListeners = pending.farmhouseListeners + 1,
                   !.kycListeners = pending.kycListeners + 1]
  /\ UNCHANGED <<auth, batch, users, comm, commInv, booking, bookingInv, farmhouse,
               farmhouseInv, manualInv, panel>>

\* lines 30-31: setPendingFarmhouses(snapshot.size)
OnFarmhouseSnapshot(p, size) == [p EXCEPT !.pendingFarmhouses = size]

\* lines 43-44: setPendingKYC(snapshot.size)
OnKycSnapshot(p, size) == [p EXCEPT !.pendingKYC = size]

\* a snapshot of the pending farmhouses is delivered to the listener
FarmhouseSnapshot(size) ==
  /\ pending.farmhouseListeners > 0
  /\ pending' = [OnFarmhouseSnapshot(pending, size) EXCEPT !.lastFarmhouses = size]
  /\ UNCHANGED <<auth, batch, users, comm, commInv, booking, bookingInv, farmhouse,
               farmhouseInv, manualInv, panel>>

\* a snapshot of the owners with pending KYC is delivered to the listener
KycSnapshot(size) ==
  /\ pending.kycListeners > 0
  /\ pending' = [OnKycSnapshot(pending, size) EXCEPT !.lastKYC = size]
  /\ UNCHANGED <<auth, batch, users, comm, commInv, booking, bookingInv, farmhouse,
               farmhouseInv, manualInv, panel>>

\* lines 32-34: the error callback of the farmhouse listener only logs
FarmhouseListenerError ==
  /\ pending.farmhouseListeners > 0
  /\ pending' = [pending EXCEPT !.farmhouseErrors = TRUE]
  /\ UNCHANGED <<auth, batch, users, comm, commInv, booking, bookingInv, farmhouse,
               farmhouseInv, manualInv, panel>>

\* lines 45-47: the error callback of the KYC listener only logs
KycListenerError ==
  /\ pending.kycListeners > 0
  /\ pending' = [pending EXCEPT !.kycErrors = TRUE]
  /\ UNCHANGED <<auth, batch, users, comm, commInv, booking, bookingInv, farmhouse,
               farmhouseInv, manualInv, panel>>

\* a cleanup that unsubscribes the farmhouse listener only
ProviderUnmountFarmhousesOnly ==
  /\ pending.mounted
  /\ pending' = [pending EXCEPT !.mounted = FALSE, !.farmhouseListeners = @ - 1]
  /\ UNCHANGED <<auth, batch, users, comm, commInv, booking, bookingInv, farmhouse,
               farmhouseInv, manualInv, panel>>

\* lines 49-52, 56-59: the cleanup of the effect unsubscribes both listeners
ProviderUnmount ==
  /\ pending.mounted
  /\ pending' = [pending EXCEPT !.mounted = FALSE, !.farmhouseListeners = @ - 1,
                                !.kycListeners = @ - 1]
  /\ UNCHANGED <<auth, batch, users, comm, commInv, booking, bookingInv, farmhouse,
               farmhouseInv, manualInv, panel>>

(***************************************************************************)
(* firebaseHelpers.batchProcess                                            *)
(***************************************************************************)
MaxItems == 3
MaxCalls == 5

\* the items arrays and batch sizes batchProcess is called with
ItemArrays == { [k \in 1..n |-> k] : n \in 0..MaxItems }
BatchSizes == (-1)..(MaxItems + 1)

\* Array.prototype.slice(start, end): a negative index counts from the end,
\* both are clamped to the array
SliceIndex(k, len) ==
  IF k < 0 THEN (IF len + k < 0 THEN 0 ELSE len + k)
  ELSE IF k > len THEN len ELSE k

Slice(items, start, end) ==
  SubSeq(items, SliceIndex(start, Len(items)) + 1, SliceIndex(end, Len(items)))

\* line 132: const results = [] of a call that was not made yet; calls are
\* the batches handed to processFn
NoBatch ==
  [pc |-> "none", items |-> << >>, batchSize |-> 1, i |-> 0, calls |-> << >>,
   results |-> << >>]

\* lines 127-132: batchProcess(items, batchSize, processFn) is called
BatchProcess(items, batchSize) ==
  /\ batch.pc = "none"
  /\ batch' = [NoBatch EXCEPT !.pc = "loop", !.items = items, !.batchSize = batchSize]
  /\ UNCHANGED <<auth, pending, users, comm, commInv, booking, bookingInv, farmhouse,
               farmhouseInv, manualInv, panel>>

\* lines 134-136, 140: the loop test, the slice and the call of processFn, or
\* the return of the results
BatchLoop ==
  /\ batch.pc = "loop"
  /\ Len(batch.calls) < MaxCalls
  /\ batch' =
       IF batch.i < Len(batch.items)
         THEN [batch EXCEPT !.pc = "await",
                 !.calls = Append(@, Slice(batch.items, batch.i,
                                           batch.i + batch.batchSize))]
         ELSE [batch EXCEPT !.pc = "returned"]
  /\ UNCHANGED <<auth, pending, users, comm, commInv, booking, bookingInv, farmhouse,
               farmhouseInv, manualInv, panel>>

\* lines 136-137, 134: processFn resolves (with a result that names its
\* batch), the result is pushed and i advances by batchSize
BatchResolve ==
  /\ batch.pc = "await"
  /\ batch' = [batch EXCEPT !.pc = "loop",
                            !.results = Append(@, batch.calls[Len(batch.calls)]),
                            !.i = @ + batch.batchSize]
  /\ UNCHANGED <<auth, pending, users, comm, commInv, booking, bookingInv, farmhouse,
               farmhouseInv, manualInv, panel>>

\* line 136: processFn rejects and so does batchProcess
BatchReject ==
  /\ batch.pc = "await"
  /\ batch' = [batch EXCEPT !.pc = "rejected"]
  /\ UNCHANGED <<auth, pending, users, comm, commInv, booking, bookingInv, farmhouse,
               farmhouseInv, manualInv, panel>>

Init ==
  /\ users \in UserDBs
  /\ comm = NoComm
  /\ commInv = [d \in Deliveries |-> IdleInv]
  /\ booking = NoBooking
  /\ bookingInv = IdleBookingInv
  /\ farmhouse = NoFarmhouse
  /\ farmhouseInv = IdleFarmhouseInv
  /\ manualInv = IdleManualInv
  /\ panel = IdlePanel
  /\ auth = NoAuth
  /\ pending = NoProvider
  /\ batch = NoBatch

NextCommunication ==
  \/ \E rt \in RecipientTypes, rid \in UserRefs, rrole \in RecipientRoles :
       CreateCommunication(rt, rid, rrole)
  \/ \E d \in Deliveries : CommTrigger(d)
  \/ \E d \in Deliveries : CommResolve(d)
  \/ \E d \in Deliveries : CommSend(d)
  \/ \E d \in Deliveries : CommWriteBack(d)
  \/ \E d \in Deliveries : CommCatch(d)

SpecCommunication == Init /\ [][NextCommunication]_vars

NextBooking ==
  \/ \E uid \in UserRefs, legacy \in BOOLEAN : CreateBooking(uid, legacy)
  \/ \E bs \in BookingStatuses, ps \in PaymentStatuses, o \in 0..1 : UpdateBooking(bs, ps, o)
  \/ BookingStart
  \/ BookingLookup
  \/ BookingSend

SpecBooking == Init /\ [][NextBooking]_vars

NextFarmhouse ==
  \/ \E oid \in UserRefs, legacy \in BOOLEAN, np \in NamePatterns :
       CreateFarmhouse(oid, legacy, np)
  \/ \E ia \in ApprovalValues, st \in FarmhouseStatuses, o \in 0..1 :
       UpdateFarmhouse(ia, st, o)
  \/ FarmhouseStart
  \/ FarmhouseLookup
  \/ FarmhouseSend

SpecFarmhouse == Init /\ [][NextFarmhouse]_vars

NextManual ==
  \/ \E caller \in UserRefs, title \in Titles, body \in Bodies, tokens \in TokenLists :
       ManualCall(caller, title, body, tokens)
  \/ ManualStart
  \/ ManualLookup
  \/ ManualSend

SpecManual == Init /\ [][NextManual]_vars

\* farmhouse approval in the admin panel together with the trigger it fires;
\* another writer (the mobile backend) sets isApproved
NextFarmhousePanel ==
  \/ \E oid \in UserRefs, legacy \in BOOLEAN : CreateFarmhouse(oid, legacy, "name")
  \/ \E ia \in ApprovalValues : UpdateFarmhouse(ia, farmhouse.status, farmhouse.other)
  \/ FarmhouseStart
  \/ FarmhouseLookup
  \/ FarmhouseSend
  \/ \E type \in ApprovalTypes, reason \in BOOLEAN, cu \in BOOLEAN, validId \in BOOLEAN :
       ModalConfirm(type, reason, cu, validId)
  \/ ModalWrite
  \/ ModalKycRead
  \/ ModalKycWrite
  \/ ModalHistory
  \/ ModalAudit
  \/ \E type \in ApprovalTypes : ListDecide(type)
  \/ ListWrite
  \/ ListTrail

SpecFarmhousePanel == Init /\ [][NextFarmhousePanel]_vars

\* cancellation in the admin panel together with the trigger it fires; another
\* writer (the payment flow) sets paymentStatus
NextBookingPanel ==
  \/ \E uid \in UserRefs, legacy \in BOOLEAN : CreateBooking(uid, legacy)
  \/ \E ps \in PaymentStatuses : UpdateBooking(booking.bookingStatus, ps, booking.other)
  \/ BookingStart
  \/ BookingLookup
  \/ BookingSend
  \/ \E hasId \in BOOLEAN, reason \in BOOLEAN : HandleCancelBooking(hasId, reason)
  \/ CancelWrite
  \/ CancelTrail
  \/ \E hasId \in BOOLEAN : HandleSaveEdit(hasId)
  \/ EditWrite
  \/ EditTrail
  \/ \E hasId \in BOOLEAN : HandleProcessRefund(hasId)
  \/ RefundWrite
  \/ RefundTrail

SpecBookingPanel == Init /\ [][NextBookingPanel]_vars

\* a message sent from the admin panel together with the trigger it fires; the
\* farmhouses are those listed before the admin opens the panel
NextCommunicationPanel ==
  \/ /\ panel.pc = "idle"
     /\ \E oid \in UserRefs, legacy \in BOOLEAN : CreateFarmhouse(oid, legacy, "name")
  \/ \E rt \in SelectorTypes, filled \in BOOLEAN : HandleSendMessage(rt, filled)
  \/ SendCount
  \/ SendAdd
  \/ \E d \in Deliveries : CommTrigger(d)
  \/ \E d \in Deliveries : CommResolve(d)
  \/ \E d \in Deliveries : CommSend(d)
  \/ \E d \in Deliveries : CommWriteBack(d)
  \/ \E d \in Deliveries : CommCatch(d)

SpecCommunicationPanel == Init /\ [][NextCommunicationPanel]_vars

\* the review of a farmhouse in FarmhouseDetailModal, from the opening of the
\* modal to the end of handleConfirmApproval
NextModal ==
  \/ /\ panel.pc = "idle"
     /\ CreateFarmhouse(1, FALSE, "name")
  \/ FarmhouseStart
  \/ ModalOpen
  \/ ModalClose
  \/ \E key \in ChecklistItems : HandleChecklistChange(key)
  \/ \E value \in CommissionValues : SetCommission(value)
  \/ HandleApprove
  \/ HandleReject
  \/ DialogClose
  \/ \E reason \in BOOLEAN, cu \in BOOLEAN, validId \in BOOLEAN :
       DialogConfirm(reason, cu, validId)
  \/ ModalWrite
  \/ ModalKycRead
  \/ ModalKycWrite
  \/ ModalHistory
  \/ ModalAudit

SpecModal == Init /\ [][NextModal]_vars

\* a call of batchProcess; every step that is enabled is eventually taken
NextBatch ==
  \/ \E items \in ItemArrays, batchSize \in BatchSizes : BatchProcess(items, batchSize)
  \/ BatchLoop
  \/ BatchResolve
  \/ BatchReject

SpecBatch == Init /\ [][NextBatch]_vars /\ WF_vars(NextBatch)

\* the shell of the admin panel: the route guard and the pending counts
NextAdminShell ==
  \/ \E loading \in BOOLEAN, currentUser \in BOOLEAN, userRole \in UserRoles :
       AuthStateChange(loading, currentUser, userRole)
  \/ ProviderMount
  \/ \E size \in SnapshotSizes : FarmhouseSnapshot(size)
  \/ \E size \in SnapshotSizes : KycSnapshot(size)
  \/ FarmhouseListenerError
  \/ KycListenerError
  \/ ProviderUnmount

SpecAdminShell == Init /\ [][NextAdminShell]_vars

\* The four operations share no state and each works on its own triggering
\* record: the dispatcher is observed one operation at a time.
NextDispatcher ==
  \/ /\ ~booking.exists /\ ~farmhouse.exists /\ manualInv.pc = "none"
     /\ NextCommunication
  \/ /\ ~comm.exists /\ ~farmhouse.exists /\ manualInv.pc = "none"
     /\ NextBooking
  \/ /\ ~comm.exists /\ ~booking.exists /\ manualInv.pc = "none"
     /\ NextFarmhouse
  \/ /\ ~comm.exists /\ ~booking.exists /\ ~farmhouse.exists
     /\ NextManual

SpecDispatcher == Init /\ [][NextDispatcher]_vars

(***************************************************************************)
(* Properties                                                              *)
(***************************************************************************)
BookingStatusTable == {"confirmed", "cancelled", "completed"}
PaymentStatusTable == {"paid", "failed", "refunded"}
PaymentTitles == {"Payment Successful", "Payment Failed", "Payment Refunded"}

Range(seq) == { seq[i] : i \in 1..Len(seq) }

\* C1: a booking update event with the same bookingStatus and the same
\* paymentStatus before and after ends the handler with no user/token lookup,
\* no push send and no write.
C1_UnchangedBookingIsNoOp ==
  ( /\ bookingInv.pc # "none"
    /\ bookingInv.before.bookingStatus = bookingInv.after.bookingStatus
    /\ bookingInv.before.paymentStatus = bookingInv.after.paymentStatus )
  => /\ bookingInv.pc \in {"start", "done"}
     /\ bookingInv.lookups = 0
     /\ bookingInv.calls = 0
     /\ bookingInv.payload = NoPayload
     /\ booking.writes = 0
     /\ bookingInv.result \in {"none", "null"}

\* an unrelated field of a booking whose user has a token was changed and the
\* handler has returned
C1_Witness ==
  /\ bookingInv.pc = "done"
  /\ bookingInv.before.bookingStatus = bookingInv.after.bookingStatus
  /\ bookingInv.before.paymentStatus = bookingInv.after.paymentStatus
  /\ bookingInv.before.bookingStatus = "confirmed"
  /\ bookingInv.before.paymentStatus = "paid"
  /\ bookingInv.before.other # bookingInv.after.other
  /\ UserData(BookingUserId(bookingInv.after)).fcmToken # NoToken
  /\ bookingInv.result = "null"

\* C2: when bookingStatus and paymentStatus both change and the lookup finds
\* the recipient's token, the handler makes exactly one push send, with the
\* title and body of the booking-status switch for the new bookingStatus and
\* never a payment-status message.
C2_BothChangedOnePush ==
  ( /\ bookingInv.pc = "done"
    /\ bookingInv.before.bookingStatus # bookingInv.after.bookingStatus
    /\ bookingInv.before.paymentStatus # bookingInv.after.paymentStatus
    /\ bookingInv.payload.token # NoToken )
  => /\ bookingInv.calls = 1
     /\ bookingInv.payload.token = UserData(BookingUserId(bookingInv.after)).fcmToken
     /\ bookingInv.payload.title = BookingStatusMessage(bookingInv.after.bookingStatus).title
     /\ bookingInv.payload.body = BookingStatusMessage(bookingInv.after.bookingStatus).body
     /\ bookingInv.payload.title \notin PaymentTitles

\* both fields changed to values of both message tables and the push was sent
C2_Witness ==
  /\ bookingInv.pc = "done"
  /\ bookingInv.before.bookingStatus = "confirmed"
  /\ bookingInv.after.bookingStatus = "cancelled"
  /\ bookingInv.before.paymentStatus = "paid"
  /\ bookingInv.after.paymentStatus = "refunded"
  /\ bookingInv.calls = 1
  /\ bookingInv.payload.title = "Booking Cancelled"
  /\ bookingInv.result = "true"

\* C3: sendManualNotification fails with 'unauthenticated' for an
\* unauthenticated caller and with 'permission-denied' for an authenticated
\* caller whose user record role is not 'admin', with zero transport calls;
\* for an admin with title, body and a non-empty token list it makes one
\* transport call to that list and returns success:true with the counts the
\* transport returned (the reads of the store and the transport call not
\* throwing).
C3_ManualAuthorization ==
  manualInv.pc = "done" =>
    /\ manualInv.caller = NoId =>
         /\ manualInv.result = "error"
         /\ manualInv.error = "unauthenticated"
         /\ manualInv.calls = 0
         /\ manualInv.lookups = 0
    /\ ( /\ manualInv.caller # NoId
         /\ UserData(manualInv.caller).role # "admin"
         /\ manualInv.error # "unhandled" ) =>
         /\ manualInv.result = "error"
         /\ manualInv.error = "permission-denied"
         /\ manualInv.calls = 0
    /\ ( /\ manualInv.caller # NoId
         /\ UserData(manualInv.caller).role = "admin"
         /\ manualInv.title # "" /\ manualInv.body # ""
         /\ manualInv.tokens.defined /\ Len(manualInv.tokens.list) > 0
         /\ manualInv.error # "unhandled" ) =>
         /\ manualInv.calls = 1
         /\ manualInv.sentTo = manualInv.tokens.list
         /\ manualInv.error # "internal" =>
              /\ manualInv.result = "success"
              /\ manualInv.response \in MulticastResponses(manualInv.tokens.list)

\* an admin called with title, body and two tokens; the transport was called
\* once and its counts were returned
C3_Witness ==
  /\ manualInv.pc = "done"
  /\ manualInv.caller \in Users
  /\ UserData(manualInv.caller).role = "admin"
  /\ manualInv.title # "" /\ manualInv.body # ""
  /\ Len(manualInv.tokens.list) = 2
  /\ manualInv.calls = 1
  /\ manualInv.result = "success"
  /\ manualInv.response = [successCount |-> 1, failureCount |-> 1]

\* C4 as stated: an empty token list yields 'invalid-argument' and zero
\* transport calls for every caller, whatever the caller's role.
C4_Original_EmptyTokensAlwaysInvalidArgument ==
  ( /\ manualInv.pc = "done"
    /\ manualInv.tokens.defined /\ Len(manualInv.tokens.list) = 0
    /\ manualInv.error # "unhandled" )
  => /\ manualInv.error = "invalid-argument"
     /\ manualInv.calls = 0

\* C4: a call with an empty token list makes zero transport calls for every
\* caller; the error is 'invalid-argument' when the caller is an authenticated
\* admin, 'unauthenticated' for an unauthenticated caller and
\* 'permission-denied' for an authenticated caller who is not an admin (the
\* read of the caller's user record not throwing).
C4_EmptyTokensRejected ==
  ( /\ manualInv.pc = "done"
    /\ manualInv.tokens.defined /\ Len(manualInv.tokens.list) = 0 )
  => /\ manualInv.calls = 0
     /\ manualInv.result = "error"
     /\ manualInv.error # "unhandled" =>
          manualInv.error =
            IF manualInv.caller = NoId THEN "unauthenticated"
            ELSE IF UserData(manualInv.caller).role # "admin" THEN "permission-denied"
            ELSE "invalid-argument"

\* an admin called with title, body and an empty token list
C4_Witness ==
  /\ manualInv.pc = "done"
  /\ UserData(manualInv.caller).role = "admin"
  /\ manualInv.title # "" /\ manualInv.body # ""
  /\ manualInv.tokens.defined /\ Len(manualInv.tokens.list) = 0
  /\ manualInv.error = "invalid-argument"
  /\ manualInv.calls = 0

\* C5: an invocation of sendCommunicationNotification after the first one
\* for the same creation event sends no push and writes no delivery outcome.
C5_SecondInvocationIsNoOp ==
  \A d \in Deliveries :
    d > 1 => /\ commInv[d].calls = 0
             /\ commInv[d].writes = 0

\* C6: every invocation of sendCommunicationNotification that has ended has
\* performed exactly one write-back onto the communication, so that the
\* communication has left the 'Pending' delivery state.
C6_EveryInvocationWritesOnce ==
  \A d \in Deliveries :
    commInv[d].pc = "done" =>
      /\ commInv[d].writes = 1
      /\ DeliveryLabel(comm) # "Pending"

\* the users the recipient selectors stand for
SelectorUsers(communication) ==
  CASE communication.recipientType = "all_users" -> Users
    [] communication.recipientType = "active_users_only" ->
         {u \in Users : users[u].is_active}
    [] communication.recipientType = "specific_user" ->
         {communication.recipientId} \cap Users
    [] OTHER -> {}

\* C7: once the recipients are resolved, the tokens to send to are those of
\* every user for all_users, of exactly the users with is_active true for
\* active_users_only and of exactly user X for specific_user with recipient
\* id X.
C7_SelectorsResolve ==
  \A d \in Deliveries :
    ( /\ commInv[d].resolved
      /\ \/ comm.recipientType \in {"all_users", "active_users_only"}
         \/ comm.recipientType = "specific_user" /\ comm.recipientId # NoId )
    => Range(commInv[d].tokens) =
         { users[u].fcmToken : u \in SelectorUsers(comm) } \ {NoToken}

\* C8: the token list handed to the transport holds exactly the non-empty
\* fcmToken values of the resolved users; a resolved user without a token
\* does not make the handler fail; the success and failure counts written
\* back sum to the number of tokens sent to.
C8_OnlyStoredTokensAreSent ==
  /\ \A d \in Deliveries :
       /\ commInv[d].calls > 0 =>
            /\ NoToken \notin Range(commInv[d].sentTo)
            /\ Range(commInv[d].sentTo) =
                 { users[u].fcmToken : u \in ResolvedUsers(comm) } \ {NoToken}
            /\ Len(commInv[d].sentTo) =
                 Cardinality({ u \in ResolvedUsers(comm) : users[u].fcmToken # NoToken })
       /\ (commInv[d].resolved /\ commInv[d].calls = 0) =>
            /\ commInv[d].error = NoError
            /\ commInv[d].result # "threw"
       /\ commInv[d].result = "response" =>
            commInv[d].response.successCount + commInv[d].response.failureCount
              = Len(commInv[d].sentTo)
  /\ comm.deliveryStatus # NoStatus =>
       \E d \in Deliveries :
         /\ commInv[d].writes = 1
         /\ comm.deliveryStatus.success = commInv[d].response.successCount
         /\ comm.deliveryStatus.failure = commInv[d].response.failureCount
         /\ comm.deliveryStatus.success + comm.deliveryStatus.failure
              = Len(commInv[d].sentTo)

\* a selector resolved to users of whom one has no token; the others were
\* sent to and the counts were written
C8_Witness ==
  \E d \in Deliveries :
    /\ commInv[d].result = "response"
    /\ \E u \in ResolvedUsers(comm) : users[u].fcmToken = NoToken
    /\ Len(commInv[d].sentTo) = 2
    /\ comm.deliveryStatus = [success |-> 1, failure |-> 1]

\* C9: a farmhouse update event with the same isApproved before and after
\* makes the handler perform no lookup and no push send, whatever other
\* fields changed.
C9_UnchangedApprovalIsNoOp ==
  ( /\ farmhouseInv.pc # "none"
    /\ farmhouseInv.before.isApproved = farmhouseInv.after.isApproved )
  => /\ farmhouseInv.pc \in {"start", "done"}
     /\ farmhouseInv.lookups = 0
     /\ farmhouseInv.calls = 0
     /\ farmhouseInv.payload = NoPayload
     /\ farmhouseInv.result \in {"none", "null"}

\* the status field and another field of an approved farmhouse whose owner
\* has a token changed, isApproved did not, and the handler has returned
C9_Witness ==
  /\ farmhouseInv.pc = "done"
  /\ farmhouseInv.before.isApproved = "true"
  /\ farmhouseInv.after.isApproved = "true"
  /\ farmhouseInv.before.status # farmhouseInv.after.status
  /\ farmhouseInv.before.other # farmhouseInv.after.other
  /\ UserData(FarmhouseOwnerId(farmhouseInv.after)).fcmToken # NoToken
  /\ farmhouseInv.result = "null"

\* C10: when bookingStatus changes to a value other than confirmed, cancelled
\* or completed, or bookingStatus is unchanged and paymentStatus changes to a
\* value other than paid, failed or refunded, the handler sends no
\* notification and raises no error.
C10_OtherStatusIgnored ==
  ( /\ bookingInv.pc # "none"
    /\ \/ /\ bookingInv.before.bookingStatus # bookingInv.after.bookingStatus
          /\ bookingInv.after.bookingStatus \notin BookingStatusTable
       \/ /\ bookingInv.before.bookingStatus = bookingInv.after.bookingStatus
          /\ bookingInv.before.paymentStatus # bookingInv.after.paymentStatus
          /\ bookingInv.after.paymentStatus \notin PaymentStatusTable )
  => /\ bookingInv.calls = 0
     /\ bookingInv.result # "threw"

\* the await that threw in invocation d was the recipient resolution or the
\* batched send
ResolutionOrSendFailed(inv) ==
  \/ ~inv.resolved /\ inv.error = StoreError
  \/ inv.error = TransportError

\* C11: when recipient resolution or the batched send throws, the catch block
\* (its update not throwing) sets notificationSent=false and notificationError
\* to the error message on the communication, leaves the delivery counts as
\* they were, returns null and calls the transport no further time.
C11_FailureIsRecordedNotRetried ==
  [][ \A d \in Deliveries :
        ( /\ commInv[d].pc = "catch"
          /\ ResolutionOrSendFailed(commInv[d])
          /\ commInv'[d].pc = "done"
          /\ commInv'[d].result # "threw" )
        => /\ comm'.notificationSent = FALSE
           /\ comm'.notificationError = commInv[d].error
           /\ comm'.notificationError \in {StoreError, TransportError}
           /\ comm'.deliveryStatus = comm.deliveryStatus
           /\ comm'.writes = comm.writes + 1
           /\ commInv'[d].result = "null"
           /\ commInv'[d].response = NoResponse
           /\ commInv'[d].calls = commInv[d].calls
           /\ commInv'[d].calls <= 1 ]_vars

\* the batched send threw, the error was stored and the handler returned null
C11_Witness ==
  \E d \in Deliveries :
    /\ commInv[d].pc = "done"
    /\ commInv[d].error = TransportError
    /\ commInv[d].calls = 1
    /\ commInv[d].result = "null"
    /\ comm.notificationSent = FALSE
    /\ comm.notificationError = TransportError
    /\ comm.deliveryStatus = NoStatus

\* C12: within one invocation the recipients are resolved before the send and
\* the send has returned before the success write-back; the counts written
\* are the successCount and failureCount of that send.
C12_ResolveSendWriteInOrder ==
  [][ \A d \in Deliveries :
        /\ commInv'[d].calls > commInv[d].calls =>
             /\ commInv[d].resolved
             /\ commInv[d].writes = 0
             /\ commInv'[d].sentTo = commInv[d].tokens
        /\ ( commInv'[d].writes > commInv[d].writes /\ commInv'[d].result = "response" ) =>
             /\ commInv[d].resolved
             /\ commInv[d].calls = 1
             /\ commInv[d].response # NoResponse
             /\ comm'.notificationSent = TRUE
             /\ comm'.deliveryStatus =
                  [success |-> commInv[d].response.successCount,
                   failure |-> commInv[d].response.failureCount] ]_vars

\* a send to two tokens returned 2 successes and the write-back stored them
C12_Witness ==
  \E d \in Deliveries :
    /\ commInv[d].pc = "done"
    /\ commInv[d].result = "response"
    /\ commInv[d].response = [successCount |-> 2, failureCount |-> 0]
    /\ comm.notificationSent = TRUE
    /\ comm.deliveryStatus = [success |-> 2, failure |-> 0]

\* C13: in every invocation of each of the four operations the push transport
\* is called at most once, whatever read, transport or write-back throws.
C13_AtMostOneTransportCall ==
  /\ \A d \in Deliveries : commInv[d].calls <= 1
  /\ bookingInv.calls <= 1
  /\ farmhouseInv.calls <= 1
  /\ manualInv.calls <= 1

\* the write-back after a send threw and so did the update of the catch
\* block: the transport was still called once only
C13_Witness ==
  \E d \in Deliveries :
    /\ commInv[d].pc = "done"
    /\ commInv[d].result = "threw"
    /\ commInv[d].response # NoResponse
    /\ commInv[d].calls = 1

\* C14: a broadcast to all_owners and a broadcast to farmhouse_owners are
\* both delivered to the tokens of every user whose role is owner.
C14_OwnerSelectorsResolve ==
  \A d \in Deliveries :
    ( /\ commInv[d].resolved
      /\ comm.recipientType \in {"all_owners", "farmhouse_owners"} )
    => Range(commInv[d].tokens) =
         { users[u].fcmToken : u \in {v \in Users : users[v].role = "owner"} } \ {NoToken}

\* C15: for a booking or farmhouse update event that passes the change guard,
\* a missing recipient id or a recipient record without fcmToken makes the
\* handler return null without a push send and without a write to any record.
C15_NoRecipientIsNoOp ==
  /\ ( /\ bookingInv.pc = "done"
       /\ \/ bookingInv.before.bookingStatus # bookingInv.after.bookingStatus
          \/ bookingInv.before.paymentStatus # bookingInv.after.paymentStatus
       /\ \/ bookingInv.after.userId = NoId /\ bookingInv.after.user_id = NoId
          \/ UserData(BookingUserId(bookingInv.after)).fcmToken = NoToken )
     => /\ bookingInv.calls = 0
        /\ bookingInv.payload = NoPayload
        /\ bookingInv.result = "null"
        /\ booking = bookingInv.after
        /\ booking.writes = 0
        /\ comm = NoComm /\ farmhouse = NoFarmhouse
  /\ ( /\ farmhouseInv.pc = "done"
       /\ farmhouseInv.before.isApproved # farmhouseInv.after.isApproved
       /\ \/ farmhouseInv.after.ownerId = NoId /\ farmhouseInv.after.owner_id = NoId
          \/ UserData(FarmhouseOwnerId(farmhouseInv.after)).fcmToken = NoToken )
     => /\ farmhouseInv.calls = 0
        /\ farmhouseInv.payload = NoPayload
        /\ farmhouseInv.result = "null"
        /\ farmhouse = farmhouseInv.after
        /\ farmhouse.writes = 0
        /\ comm = NoComm /\ booking = NoBooking

\* the booking of a user whose record has no fcmToken was confirmed; the
\* record was read and the handler returned
C15_Witness ==
  /\ bookingInv.pc = "done"
  /\ bookingInv.before.bookingStatus = "pending"
  /\ bookingInv.after.bookingStatus = "confirmed"
  /\ BookingUserId(bookingInv.after) \in Users
  /\ UserData(BookingUserId(bookingInv.after)).fcmToken = NoToken
  /\ bookingInv.lookups = 1
  /\ bookingInv.failed = "none"
  /\ bookingInv.calls = 0
  /\ bookingInv.result = "null"

\* C16: sendBookingStatusNotification and sendFarmhouseStatusNotification
\* never end with an exception; when the token lookup or the send throws,
\* the handler returns null, has written nothing to the booking or farmhouse
\* and has not called the transport again.
C16_TriggerErrorsSwallowed ==
  /\ bookingInv.result \in {"none", "null", "true"}
  /\ farmhouseInv.result \in {"none", "null", "true"}
  /\ bookingInv.failed # "none" =>
       /\ bookingInv.pc = "done"
       /\ bookingInv.result = "null"
       /\ bookingInv.calls = (IF bookingInv.failed = "send" THEN 1 ELSE 0)
       /\ booking = bookingInv.after
       /\ booking.writes = 0
  /\ farmhouseInv.failed # "none" =>
       /\ farmhouseInv.pc = "done"
       /\ farmhouseInv.result = "null"
       /\ farmhouseInv.calls = (IF farmhouseInv.failed = "send" THEN 1 ELSE 0)
       /\ farmhouse = farmhouseInv.after
       /\ farmhouse.writes = 0

\* the send of a farmhouse approval push threw and the handler returned null
C16_Witness ==
  /\ farmhouseInv.pc = "done"
  /\ farmhouseInv.failed = "send"
  /\ farmhouseInv.after.isApproved = "true"
  /\ farmhouseInv.payload.title = "Farmhouse Approved!"
  /\ farmhouseInv.calls = 1
  /\ farmhouseInv.result = "null"

\* C17: when an admin approves a farmhouse in the admin panel and the owner
\* has a stored token, the update event of that write makes
\* sendFarmhouseStatusNotification send the owner the 'Farmhouse Approved!'
\* push, and a rejection a 'Farmhouse Status Update' push (read for a lookup
\* and a transport that return).
C17_PanelDecisionIsPushed ==
  ( /\ farmhouseInv.pc = "done"
    /\ farmhouseInv.origin = "panel"
    /\ farmhouseInv.failed = "none"
    /\ UserData(FarmhouseOwnerId(farmhouseInv.after)).fcmToken # NoToken )
  => /\ farmhouseInv.calls = 1
     /\ farmhouseInv.payload.title =
          IF farmhouseInv.after.status = "approved"
            THEN "Farmhouse Approved!" ELSE "Farmhouse Status Update"

\* C18: when an admin cancels a booking with handleCancelBooking and the
\* booking's user has a stored token, the update event of that write makes
\* sendBookingStatusNotification send the user the 'Booking Cancelled' push
\* (read for a lookup and a transport that return).
C18_PanelCancellationIsPushed ==
  ( /\ bookingInv.pc = "done"
    /\ bookingInv.origin = "cancel"
    /\ bookingInv.failed = "none"
    /\ UserData(BookingUserId(bookingInv.after)).fcmToken # NoToken )
  => /\ bookingInv.calls = 1
     /\ bookingInv.payload.title = "Booking Cancelled"

\* C19: a failed write of the audit entry does not fail the operation that
\* logs it: the farmhouse approval or rejection of FarmhouseDetailModal that
\* reached its audit step ends reporting success, with the dialog closed and
\* the loading flag cleared, whether the entry was stored, failed or skipped.
C19_AuditFailureStillSuccess ==
  ( /\ panel.flow = "modal"
    /\ panel.pc = "done"
    /\ panel.audit # "none" )
  => /\ panel.report = "success"
     /\ panel.wrote
     /\ ~panel.loading
     /\ ~panel.dialogOpen

\* an approval whose audit entry could not be stored and that reported success
C19_Witness ==
  /\ panel.flow = "modal"
  /\ panel.pc = "done"
  /\ panel.approvalType = "approve"
  /\ panel.audit = "failed"
  /\ panel.report = "success"
  /\ farmhouse.status = "approved"

\* the users a selector value of the admin panel stands for
PanelTargets(rt) ==
  CASE rt = "all_users" -> Users
    [] rt = "active_users" -> {u \in Users : users[u].is_active}
    [] rt = "all_owners" -> {u \in Users : users[u].role = "owner"}
    [] rt = "farmhouse_owners" -> FarmhouseOwnerIds \cap Users
    [] OTHER -> {}

\* C20: every recipient type the selector of CommunicationCenter writes is
\* resolved by sendCommunicationNotification: for a communication created by
\* handleSendMessage whose targeted users include one with a token, an
\* invocation whose resolution did not throw calls the transport.
C20_PanelSelectorsArePushed ==
  \A d \in Deliveries :
    ( /\ comm.exists
      /\ comm.sentBy = "panel"
      /\ commInv[d].resolved
      /\ commInv[d].pc = "done"
      /\ \E u \in PanelTargets(comm.recipientType) : users[u].fcmToken # NoToken )
    => commInv[d].calls = 1

\* C21: the booking edit of the admin panel writes only the edited fields
\* and leaves bookingStatus and paymentStatus as they were, so the update
\* event it produces never makes sendBookingStatusNotification look up a
\* user or send a push: the invocation ends returning null.
C21_EditIsNeverPushed ==
  bookingInv.origin = "edit"
  => /\ bookingInv.before.bookingStatus = bookingInv.after.bookingStatus
     /\ bookingInv.before.paymentStatus = bookingInv.after.paymentStatus
     /\ bookingInv.before.status = bookingInv.after.status
     /\ bookingInv.lookups = 0
     /\ bookingInv.calls = 0
     /\ bookingInv.pc \in {"start", "done"}
     /\ bookingInv.pc = "done" => bookingInv.result = "null"

\* the edit of a booking whose user has a token was written and its update
\* event was handled
C21_Witness ==
  /\ bookingInv.pc = "done"
  /\ bookingInv.origin = "edit"
  /\ bookingInv.before.other # bookingInv.after.other
  /\ UserData(BookingUserId(bookingInv.after)).fcmToken # NoToken
  /\ panel.flow = "edit" /\ panel.report = "success"

\* C22: PrivateRoute renders its children only when loading is false,
\* currentUser is set and userRole is 'admin'; while loading it renders
\* neither the children nor a redirect; in every other state it redirects to
\* /login.
C22_ChildrenOnlyForAdmin ==
  /\ auth.rendered = "children"
       <=> (~auth.loading /\ auth.currentUser /\ auth.userRole = "admin")
  /\ auth.loading => auth.rendered = "spinner"
  /\ (~auth.loading /\ ~(auth.currentUser /\ auth.userRole = "admin"))
       => auth.rendered = "redirect"

\* a signed-in admin sees the protected children
C22_Witness ==
  /\ ~auth.loading
  /\ auth.currentUser
  /\ auth.userRole = "admin"
  /\ auth.rendered = "children"

\* C23: while PendingCountProvider is mounted it holds exactly one listener
\* for pending farmhouses and one for pending KYC; each count equals the size
\* of the most recent snapshot its listener delivered (0 before the first),
\* also after a listener error; after unmount both listeners are
\* unsubscribed.
C23_OneListenerCountsFollowSnapshots ==
  /\ pending.mounted
       => (pending.farmhouseListeners = 1 /\ pending.kycListeners = 1)
  /\ ~pending.mounted
       => (pending.farmhouseListeners = 0 /\ pending.kycListeners = 0)
  /\ pending.pendingFarmhouses = pending.lastFarmhouses
  /\ pending.pendingKYC = pending.lastKYC

\* a mounted provider whose KYC listener reported an error after snapshots of
\* different sizes were delivered to the two listeners
C23_Witness ==
  /\ pending.mounted
  /\ pending.kycErrors
  /\ pending.pendingKYC = 2
  /\ pending.pendingFarmhouses = 1

C25_OutcomeFollowsStatusWrite ==
  ( /\ panel.flow = "modal"
    /\ panel.approvalType = "approve"
    /\ panel.pc = "done" )
  => /\ panel.wrote => panel.report = "success"
     /\ ~panel.wrote
          => /\ panel.report = "error"
             /\ panel.kyc = "none"
             /\ panel.history = "none"
             /\ panel.audit = "none"
     /\ ~panel.loading

\* an approval that reported success although the KYC update, the history
\* entry and the audit entry all failed
C25_Witness ==
  /\ panel.flow = "modal"
  /\ panel.approvalType = "approve"
  /\ panel.pc = "done"
  /\ panel.wrote
  /\ panel.kyc = "failed"
  /\ panel.history = "failed"
  /\ panel.audit = "failed"
  /\ panel.report = "success"
  /\ farmhouse.status = "approved"

\* C26: when the only invocation of sendCommunicationNotification for a
\* communication has ended, a record with notificationSent=false and a
\* notificationError means the batched send did not complete, and a completed
\* batched send means the record has notificationSent=true and the delivery
\* counts of the response.
C26_ErrorRecordMeansNoPush ==
  \A d \in Deliveries :
    ( /\ commInv[d].pc = "done"
      /\ \A e \in Deliveries \ {d} : commInv[e].pc = "none" )
    => /\ (~comm.notificationSent /\ comm.notificationError # NoError)
            => commInv[d].response = NoResponse
       /\ commInv[d].response # NoResponse
            => /\ comm.notificationSent
               /\ comm.deliveryStatus =
                    [success |-> commInv[d].response.successCount,
                     failure |-> commInv[d].response.failureCount]

\* C27: sendCommunicationNotification never lets an exception reach the
\* trigger layer: an invocation in which the recipient resolution, the send
\* or the write-back failed ends with a returned null.
C27_EveryFailureReturnsNull ==
  \A d \in Deliveries :
    (commInv[d].pc = "done" /\ commInv[d].error # NoError)
    => commInv[d].result = "null"

\* C28: when handleCancelBooking, handleProcessRefund or handleSaveEdit has
\* ended: a reported failure means the booking document was not modified; a
\* reported success means the booking update and its audit_trail entry were
\* both written; a cancellation without a reason wrote nothing; the refund
\* dialog is open after a cancel only if the cancel succeeded and the booking
\* was paid; and processing is false.
C28_ReportMatchesWrites ==
  ( /\ panel.flow \in {"cancel", "edit", "refund"}
    /\ panel.pc = "done" )
  => /\ panel.report = "error" => ~panel.wrote
     /\ panel.report = "success" => (panel.wrote /\ panel.audit = "stored")
     /\ (panel.flow = "cancel" /\ ~panel.reason) => ~panel.wrote
     /\ (panel.flow = "cancel" /\ panel.refundDialogOpen)
          => (panel.report = "success" /\ panel.paid)
     /\ ~panel.loading

\* the items of the batches in the order in which they were passed
RECURSIVE Flatten(_)
Flatten(chunks) ==
  IF chunks = << >> THEN << >> ELSE Head(chunks) \o Flatten(Tail(chunks))

\* C29: batchProcess terminates for every items array and every batchSize
\* (processFn resolving or rejecting), and when it returns it has passed
\* every item to processFn exactly once, in order, in consecutive batches of
\* at most batchSize items, and returns one result per batch in batch order;
\* so it never calls processFn more often than there are items.
C29_BatchProcessTerminates ==
  /\ [](Len(batch.calls) <= Len(batch.items))
  /\ [](batch.pc = "returned"
          => /\ Flatten(batch.calls) = batch.items
             /\ \A c \in 1..Len(batch.calls) :
                  Len(batch.calls[c]) <= batch.batchSize
             /\ batch.results = batch.calls)
  /\ (batch.pc = "loop") ~> (batch.pc \in {"returned", "rejected"})

=============================================================================
